---- MODULE Spec2Model ----
(***************************************************************************)
(* The quiz platform: the in-memory store (server/storage.ts), the request *)
(* handlers in front of it (server/routes.ts), and one student's session   *)
(* (QuizProvider in QuizContext, the Quiz page, the Leaderboard page).     *)
(***************************************************************************)
EXTENDS Integers, Sequences, FiniteSets, TLC

(* ---------------------------------------------------------------- bounds *)
NumQuestions == 3      \* questions in the question bank
NumUsers == 2          \* students known to the store
MaxAnswers == 4        \* answers the session posts before the model stops it
MaxSubmits == 2        \* results the session posts before the model stops it
MaxNow == 2            \* administrator actions (each reads a later clock)
MaxStoreAnswers == 2   \* direct saveQuizAnswer calls
MaxStoreResults == 3   \* direct saveResult calls
MaxScore == 1          \* largest score a direct saveResult call supplies
MaxStored == 4         \* records stored by direct calls mixing answers and results
MaxRouteRecords == 2   \* records stored through the request handlers
ActWindow == 1         \* seconds at either end of a countdown in which the student,
                       \* the administrator and the network act; between them only
                       \* the interval callback runs

(* ------------------------------------------------------------- constants *)
QuestionDuration == 60 \* useState(60), "return 60", setTimeRemaining(60)
CorrectPoints == 2     \* (correctCount * 2)

Null == "null"
Undefined == "undefined"
\* A nullable Date or record: the empty sequence for null, <<x>> for the value x.
None == <<>>
Some(x) == <<x>>
Options == {"A", "B", "C", "D"}   \* the RadioGroupItem values
Picks == {"A"}                    \* the options the modelled student picks
SuppliedRanks == {0, 1, 5}        \* rank values a direct saveResult call supplies (0: none)
Users == 1..NumUsers
QuestionIds == 1..NumQuestions

\* The student whose session is modelled.
SessionUser == CHOOSE u \in Users : TRUE

\* The question bank: ids 1..NumQuestions in creation order.
CorrectAnswerOf(id) ==
    IF id % 2 = 1 THEN "A" ELSE "B"

Questions ==
    [i \in 1..NumQuestions |-> [id |-> i, correctAnswer |-> CorrectAnswerOf(i)]]

VARIABLES
    \* MemStorage
    quizSettings, quizAnswers, results, quizAnswerIdCounter, resultIdCounter, now,
    \* QuizProvider state of the student's session
    quizState, questions, currentQuestionIndex, userAnswers, timeRemaining, quizResult,
    \* closures: the interval callback of the timer effect, a pending handleNextQuestion
    timer, hn,
    \* Quiz page and router
    selectedAnswer, location, answersFetch,
    \* the request the server handled last, with its response
    http

storeVars == <<quizSettings, quizAnswers, results, quizAnswerIdCounter, resultIdCounter, now>>
sessionVars == <<quizState, questions, currentQuestionIndex, userAnswers, timeRemaining,
                 quizResult, timer, hn, selectedAnswer, location, answersFetch>>
vars == <<storeVars, sessionVars, http>>

\* No request handled yet.
NoRequest ==
    [route |-> "none", user |-> 0, role |-> "none", userId |-> 0, status |-> 0,
     body |-> <<>>]

(* ------------------------------------------------------------ MemStorage *)

\* Array.prototype.sort((a, b) => b.score - a.score): a stable sort, here by
\* insertion from the left, an element going after every element it does not beat.
\* A sort that is not stable: an element goes before the elements it ties with.
RECURSIVE InsertByScoreUnstable(_, _)
InsertByScoreUnstable(sorted, r) ==
    IF sorted = <<>> THEN <<r>>
    ELSE IF r.score >= Head(sorted).score THEN <<r>> \o sorted
    ELSE <<Head(sorted)>> \o InsertByScoreUnstable(Tail(sorted), r)

RECURSIVE InsertByScore(_, _)
InsertByScore(sorted, r) ==
    IF sorted = <<>> THEN <<r>>
    ELSE IF r.score > Head(sorted).score THEN <<r>> \o sorted
    ELSE <<Head(sorted)>> \o InsertByScore(Tail(sorted), r)

RECURSIVE SortByScoreDesc(_)
SortByScoreDesc(rs) ==
    IF rs = <<>> THEN <<>>
    ELSE InsertByScore(SortByScoreDesc(SubSeq(rs, 1, Len(rs) - 1)), rs[Len(rs)])

\* Position (1-based) of the record with the given id in a sequence of records.
IndexOfId(rs, id) ==
    CHOOSE i \in 1..Len(rs) : rs[i].id = id

\* A ranking in which equal scores share a rank (1 + the number of higher scores).
CalculateRankingsShared(rs) ==
    [i \in 1..Len(rs) |->
        [rs[i] EXCEPT !.rank =
            1 + Cardinality({j \in 1..Len(rs) : rs[j].score > rs[i].score})]]

\* calculateRankings: sort a copy, then results.set(result.id, {...result, rank}),
\* which keeps each entry's place in the Map.
CalculateRankings(rs) ==
    LET sortedResults == SortByScoreDesc(rs)
    IN  [i \in 1..Len(rs) |->
            [rs[i] EXCEPT !.rank = IndexOfId(sortedResults, rs[i].id)]]

\* saveResult: a new id, the record appended, all ranks recomputed. (createdAt
\* is left out: ids grow with the time of creation.)
SaveResult(rs, id, insertResult) ==
    CalculateRankings(Append(rs,
        [id |-> id,
         userId |-> insertResult.userId,
         score |-> insertResult.score,
         correctAnswers |-> insertResult.correctAnswers,
         incorrectAnswers |-> insertResult.incorrectAnswers,
         skippedAnswers |-> insertResult.skippedAnswers,
         averageResponseTime |-> insertResult.averageResponseTime,
         completionTime |-> insertResult.completionTime,
         rank |-> insertResult.rank]))

\* saveQuizAnswer: a new id, isCorrect derived from the question bank, appended.
IsCorrect(questionId, userAnswer) ==
    IF questionId \in QuestionIds
    THEN Questions[questionId].correctAnswer = userAnswer
    ELSE FALSE

\* A save keyed by the question alone: it replaces every record of the
\* question, whoever it belongs to.
SaveQuizAnswerByQuestion(as, id, insertAnswer) ==
    Append(SelectSeq(as, LAMBDA a : a.questionId # insertAnswer.questionId),
        [id |-> id,
         userId |-> insertAnswer.userId,
         questionId |-> insertAnswer.questionId,
         userAnswer |-> insertAnswer.userAnswer,
         responseTimeSeconds |-> insertAnswer.responseTimeSeconds,
         isCorrect |-> IsCorrect(insertAnswer.questionId, insertAnswer.userAnswer)])

\* A save that spreads the body last: a correctness flag in the body wins.
SaveQuizAnswerTrusting(as, id, insertAnswer) ==
    Append(as,
        [id |-> id,
         userId |-> insertAnswer.userId,
         questionId |-> insertAnswer.questionId,
         userAnswer |-> insertAnswer.userAnswer,
         responseTimeSeconds |-> insertAnswer.responseTimeSeconds,
         isCorrect |-> IF "isCorrect" \in DOMAIN insertAnswer
                       THEN insertAnswer.isCorrect
                       ELSE IsCorrect(insertAnswer.questionId, insertAnswer.userAnswer)])

\* {...insertAnswer, id, isCorrect, createdAt}: the derived flag replaces any
\* isCorrect the body carries.
SaveQuizAnswer(as, id, insertAnswer) ==
    Append(as,
        [id |-> id,
         userId |-> insertAnswer.userId,
         questionId |-> insertAnswer.questionId,
         userAnswer |-> insertAnswer.userAnswer,
         responseTimeSeconds |-> insertAnswer.responseTimeSeconds,
         isCorrect |-> IsCorrect(insertAnswer.questionId, insertAnswer.userAnswer)])

\* getQuizAnswersForUser: the stored records of the user, in Map order.
GetQuizAnswersForUser(userId) ==
    SelectSeq(quizAnswers, LAMBDA a : a.userId = userId)

\* getResult: the first stored Result of the user, if any.
GetResult(userId) ==
    IF \E i \in 1..Len(results) : results[i].userId = userId
    THEN Some(results[CHOOSE i \in 1..Len(results) :
                         /\ results[i].userId = userId
                         /\ \A j \in 1..(i - 1) : results[j].userId # userId])
    ELSE None

\* listResults: Array.from(this.results.values()).
ListResults == results

\* A start that sets the state and leaves the start time alone.
StartQuizSettingsNoTime(s, t) ==
    [s EXCEPT !.state = "started", !.updatedAt = Some(t)]

\* A start that leaves a quiz that is already started as it is.
StartQuizSettingsOnce(s, t) ==
    IF s.state = "started" THEN s
    ELSE [s EXCEPT !.state = "started", !.startTime = Some(t), !.updatedAt = Some(t)]

\* A reset that spreads the previous settings and so keeps their start time.
ResetQuizSettingsKeepStart(s, t) ==
    [s EXCEPT !.state = "waiting", !.endTime = None,
              !.lastReset = Some(t), !.updatedAt = Some(t)]

\* A start that ends a quiz that is already started.
StartQuizSettingsEnds(s, t) ==
    IF s.state = "started"
    THEN [s EXCEPT !.state = "completed", !.endTime = Some(t), !.updatedAt = Some(t)]
    ELSE [s EXCEPT !.state = "started", !.startTime = Some(t), !.updatedAt = Some(t)]

\* startQuiz: state 'started', startTime now; everything else kept.
StartQuizSettings(s, t) ==
    [s EXCEPT !.state = "started", !.startTime = Some(t), !.updatedAt = Some(t)]

\* resetQuiz: a fresh settings record.
ResetQuizSettings(s, t) ==
    [state |-> "waiting", startTime |-> None, endTime |-> None,
     lastReset |-> Some(t), updatedAt |-> Some(t)]

(* ------------------------------------------------------------ QuizContext *)

\* `x || null`: undefined and null both become null.
OrNull(x) ==
    IF x = Undefined THEN Null ELSE x

NoAnswers ==
    [id \in QuestionIds |-> Undefined]

\* Math.round(n / d) for n >= 0, d > 0.
RoundDiv(n, d) ==
    (2 * n + d) \div (2 * d)

\* A classification that skips only the questions with no entry in the map.
RECURSIVE CountAnswersNullWrong(_, _, _)
CountAnswersNullWrong(qs, answers, k) ==
    IF k = 0 THEN [correctCount |-> 0, incorrectCount |-> 0, skippedCount |-> 0]
    ELSE LET c == CountAnswersNullWrong(qs, answers, k - 1)
             answer == answers[qs[k].id]
         IN  IF answer = Undefined
             THEN [c EXCEPT !.skippedCount = @ + 1]
             ELSE IF answer = qs[k].correctAnswer
             THEN [c EXCEPT !.correctCount = @ + 1]
             ELSE [c EXCEPT !.incorrectCount = @ + 1]

\* A classification that does not count the skipped questions.
RECURSIVE CountAnswersSkipsDropped(_, _, _)
CountAnswersSkipsDropped(qs, answers, k) ==
    IF k = 0 THEN [correctCount |-> 0, incorrectCount |-> 0, skippedCount |-> 0]
    ELSE LET c == CountAnswersSkipsDropped(qs, answers, k - 1)
             answer == answers[qs[k].id]
         IN  IF answer = Undefined \/ answer = Null
             THEN c
             ELSE IF answer = qs[k].correctAnswer
             THEN [c EXCEPT !.correctCount = @ + 1]
             ELSE [c EXCEPT !.incorrectCount = @ + 1]

\* submitQuiz, the forEach over the questions: the three counters after the
\* first k questions.
RECURSIVE CountAnswers(_, _, _)
CountAnswers(qs, answers, k) ==
    IF k = 0 THEN [correctCount |-> 0, incorrectCount |-> 0, skippedCount |-> 0]
    ELSE LET c == CountAnswers(qs, answers, k - 1)
             answer == answers[qs[k].id]
         IN  IF answer = Undefined \/ answer = Null
             THEN [c EXCEPT !.skippedCount = @ + 1]
             ELSE IF answer = qs[k].correctAnswer
             THEN [c EXCEPT !.correctCount = @ + 1]
             ELSE [c EXCEPT !.incorrectCount = @ + 1]

\* A score without the penalty for incorrect answers.
FinalScoreNoPenalty(correctCount, incorrectCount) ==
    correctCount * CorrectPoints

\* finalScore = (correctCount * 2) - incorrectCount
FinalScore(correctCount, incorrectCount) ==
    (correctCount * CorrectPoints) - incorrectCount

\* averageTime: totalResponseTime is declared 0 and never added to.
AverageTime(answeredCount) ==
    LET totalResponseTime == 0
    IN  IF answeredCount > 0 THEN RoundDiv(totalResponseTime, answeredCount) ELSE 0

\* The body the submitResultsMutation posts: submitQuiz run in a render whose
\* questions, userAnswers and timeRemaining are qs, answers and time.
SubmitQuizBody(qs, answers, time) ==
    LET c == CountAnswers(qs, answers, Len(qs))
    IN  [userId |-> SessionUser,
         score |-> FinalScore(c.correctCount, c.incorrectCount),
         correctAnswers |-> c.correctCount,
         incorrectAnswers |-> c.incorrectCount,
         skippedAnswers |-> c.skippedCount,
         averageResponseTime |-> AverageTime(c.correctCount + c.incorrectCount),
         completionTime |-> Len(qs) * QuestionDuration - time,
         rank |-> 0]

\* The body the submitAnswerMutation posts; timeRemaining is the rendered one.
SubmitAnswerBody(questionId, answer) ==
    [userId |-> SessionUser, questionId |-> questionId, userAnswer |-> answer,
     responseTimeSeconds |-> QuestionDuration - timeRemaining]

\* The answers query's onSuccess: a new Map filled record by record.
RECURSIVE AnswersMap(_)
AnswersMap(data) ==
    IF data = <<>> THEN NoAnswers
    ELSE [AnswersMap(SubSeq(data, 1, Len(data) - 1))
            EXCEPT ![data[Len(data)].questionId] = data[Len(data)].userAnswer]

\* The resume rule of the answers query's onSuccess.
ResumeIndex(n, qlen, idx) ==
    IF n > 0 /\ n < qlen THEN n ELSE idx

\* A test that also finds a next question after the last one.
HasNextAlways(idx, qlen) ==
    idx < qlen

\* nextQuestion's and the interval callback's test: is idx before the last question?
HasNext(idx, qlen) ==
    idx < qlen - 1

\* The Quiz page's redirect effect.
Redirect(loc, qs) ==
    IF loc = "/quiz" /\ qs = "waiting" THEN "/waiting-room"
    ELSE IF loc = "/quiz" /\ qs = "completed" THEN "/leaderboard"
    ELSE loc

\* A timer effect that sets its interval whatever the state.
TimerOnAlways(qs, qn) ==
    TRUE

\* The timer effect's condition for setting the interval.
TimerOn(qs, qn) ==
    qs = "started" /\ Len(qn) > 0

\* One render and its effects, given the state the handler set: the timer effect
\* runs again when one of [quizState, currentQuestionIndex, questions.length]
\* changed, replacing the interval (whose callback closes over that render's
\* userAnswers and timeRemaining) and setting the countdown back to 60; the Quiz
\* page's effects redirect and re-derive the selected answer.
Render(qs, qn, idx, ua, uaSet, tr, loc, sel) ==
    LET rerun == <<qs, idx, Len(qn)>> # <<quizState, currentQuestionIndex, Len(questions)>>
        on == TimerOn(qs, qn)
        loc2 == Redirect(loc, qs)
        sync == /\ loc2 = "/quiz" /\ Len(qn) > 0 /\ idx < Len(qn)
                /\ \/ location # "/quiz"
                   \/ idx # currentQuestionIndex
                   \/ qn # questions
                   \/ uaSet
    IN  /\ quizState' = qs
        /\ questions' = qn
        /\ currentQuestionIndex' = idx
        /\ userAnswers' = ua
        /\ timer' = IF rerun THEN [on |-> on, answers |-> ua, time |-> tr] ELSE timer
        /\ timeRemaining' = IF rerun /\ on THEN QuestionDuration ELSE tr
        /\ location' = loc2
        /\ selectedAnswer' = IF loc2 # "/quiz" THEN Null
                             ELSE IF sync THEN OrNull(ua[qn[idx + 1].id])
                             ELSE sel

IdleHn ==
    [pc |-> "idle", idx |-> 0, answers |-> NoAnswers, time |-> QuestionDuration]

Init ==
    /\ http = NoRequest
    /\ quizSettings = [state |-> "waiting", startTime |-> None, endTime |-> None,
                       lastReset |-> None, updatedAt |-> Some(0)]
    /\ quizAnswers = <<>>
    /\ results = <<>>
    /\ quizAnswerIdCounter = 1
    /\ resultIdCounter = 1
    /\ now = 0
    /\ quizState = "waiting"
    /\ questions = <<>>
    /\ currentQuestionIndex = 0
    /\ userAnswers = NoAnswers
    /\ timeRemaining = QuestionDuration
    /\ quizResult = None
    /\ timer = [on |-> FALSE, answers |-> NoAnswers, time |-> QuestionDuration]
    /\ hn = IdleHn
    /\ selectedAnswer = Null
    /\ location = "/waiting-room"
    /\ answersFetch = None

(* ----------------------------------------------- requests and the store *)

\* The moments (in this session's countdown) at which anything but the interval
\* callback happens.
Acting ==
    \/ timeRemaining <= ActWindow
    \/ timeRemaining > QuestionDuration - ActWindow

\* POST /api/quiz/start -> storage.startQuiz(); new Date() is later than before.
StartQuiz ==
    /\ UNCHANGED http
    /\ Acting
    /\ now < MaxNow
    /\ now' = now + 1
    /\ quizSettings' = StartQuizSettings(quizSettings, now + 1)
    /\ UNCHANGED <<quizAnswers, results, quizAnswerIdCounter, resultIdCounter>>
    /\ UNCHANGED sessionVars

\* POST /api/quiz/reset -> storage.resetQuiz()
ResetQuiz ==
    /\ UNCHANGED http
    /\ Acting
    /\ now < MaxNow
    /\ now' = now + 1
    /\ quizSettings' = ResetQuizSettings(quizSettings, now + 1)
    /\ quizAnswers' = <<>>
    /\ results' = <<>>
    /\ quizAnswerIdCounter' = 1
    /\ resultIdCounter' = 1
    /\ UNCHANGED sessionVars

\* POST /api/quiz/answers by the authenticated user -> storage.saveQuizAnswer
PostAnswer(body) ==
    /\ Len(quizAnswers) < MaxAnswers
    /\ quizAnswers' = SaveQuizAnswer(quizAnswers, quizAnswerIdCounter, body)
    /\ quizAnswerIdCounter' = quizAnswerIdCounter + 1

\* POST /api/results by the authenticated user -> storage.saveResult
PostResult(body) ==
    /\ Len(results) < MaxSubmits
    /\ results' = SaveResult(results, resultIdCounter, body)
    /\ resultIdCounter' = resultIdCounter + 1

\* What saveResult returns: this.results.get(id) after the ranking.
SavedResult(rs, id) ==
    rs[IndexOfId(rs, id)]

(* ------------------------------------------------- the student's session *)

\* The settings query's onSuccess (polled every 5 seconds).
PollSettings ==
    /\ UNCHANGED http
    /\ Acting
    /\ answersFetch' = IF quizState # "started" /\ quizSettings.state = "started"
                       THEN Some(GetQuizAnswersForUser(SessionUser))
                       ELSE answersFetch
    /\ Render(quizSettings.state, questions, currentQuestionIndex, userAnswers, FALSE,
              timeRemaining,
              IF quizSettings.state = "started" /\ location = "/waiting-room"
              THEN "/quiz" ELSE location,
              selectedAnswer)
    /\ UNCHANGED <<storeVars, quizResult, hn>>

\* The questions query's onSuccess (enabled once the quiz is seen started).
FetchQuestions ==
    /\ UNCHANGED http
    /\ Acting
    /\ quizState = "started"
    /\ questions = <<>>
    /\ Render(quizState, Questions, currentQuestionIndex, userAnswers, FALSE,
              timeRemaining, location, selectedAnswer)
    /\ UNCHANGED <<storeVars, quizResult, hn, answersFetch>>

\* The answers query's onSuccess. The query is fetched when it becomes enabled
\* and when a saved answer invalidates it; answersFetch holds the response on
\* its way (a request reaches the server at once, its response arrives later).
FetchAnswers ==
    /\ UNCHANGED http
    /\ Acting
    /\ quizState = "started"
    /\ answersFetch # None
    /\ answersFetch' = None
    /\ LET data == answersFetch[1]
       IN  Render(quizState, questions,
                  ResumeIndex(Len(data), Len(questions), currentQuestionIndex),
                  AnswersMap(data), TRUE, timeRemaining, location, selectedAnswer)
    /\ UNCHANGED <<storeVars, quizResult, hn>>

\* The student picks an option (handleAnswerChange); the page shows the options
\* only while nothing is loading and there is a current question.
SelectAnswer(o) ==
    /\ UNCHANGED http
    /\ Acting
    /\ location = "/quiz"
    /\ hn.pc = "idle"
    /\ Len(questions) > 0
    /\ currentQuestionIndex < Len(questions)
    /\ o # selectedAnswer
    /\ selectedAnswer' = o
    /\ UNCHANGED <<storeVars, quizState, questions, currentQuestionIndex, userAnswers,
                   timeRemaining, quizResult, timer, hn, location, answersFetch>>

\* handleNextQuestion up to its await: submitAnswer of the rendered closure sets
\* the answer in a copy of that render's userAnswers and posts it.
HandleNextQuestion ==
    /\ UNCHANGED http
    /\ Acting
    /\ location = "/quiz"
    /\ hn.pc = "idle"
    /\ Len(questions) > 0
    /\ currentQuestionIndex < Len(questions)
    /\ LET currentQuestion == questions[currentQuestionIndex + 1]
       IN  /\ PostAnswer(SubmitAnswerBody(currentQuestion.id, selectedAnswer))
           /\ Render(quizState, questions, currentQuestionIndex,
                     [userAnswers EXCEPT ![currentQuestion.id] = selectedAnswer], TRUE,
                     timeRemaining, location, selectedAnswer)
    /\ hn' = [pc |-> "awaiting", idx |-> currentQuestionIndex,
              answers |-> userAnswers, time |-> timeRemaining]
    /\ UNCHANGED <<quizSettings, results, resultIdCounter, now, quizResult, answersFetch>>

\* submitAnswer without its local update (newAnswers.set left out).
NewAnswersDropped(answers, questionId, answer) ==
    answers

\* submitAnswer's local update: a copy of the rendered map with the answer set.
NewAnswers(answers, questionId, answer) ==
    [answers EXCEPT ![questionId] = answer]

\* handleNextQuestion up to its await when the POST of the answer fails (the
\* request throws or the server answers with an error): nothing is stored; the
\* local map was updated before the request.
HandleNextQuestionFailed ==
    /\ UNCHANGED http
    /\ Acting
    /\ location = "/quiz"
    /\ hn.pc = "idle"
    /\ Len(questions) > 0
    /\ currentQuestionIndex < Len(questions)
    /\ LET currentQuestion == questions[currentQuestionIndex + 1]
       IN  Render(quizState, questions, currentQuestionIndex,
                  NewAnswers(userAnswers, currentQuestion.id, selectedAnswer), TRUE,
                  timeRemaining, location, selectedAnswer)
    /\ hn' = [pc |-> "caught", idx |-> currentQuestionIndex,
              answers |-> userAnswers, time |-> timeRemaining]
    /\ UNCHANGED <<storeVars, quizResult, answersFetch>>

\* The mutation has rejected: onError shows a toast, submitAnswer's catch returns
\* false, and handleNextQuestion goes on after its await as after a success,
\* but no query is invalidated.
AfterSubmitAnswerFailed ==
    /\ UNCHANGED http
    /\ Acting
    /\ hn.pc = "caught"
    /\ hn' = IdleHn
    /\ UNCHANGED answersFetch
    /\ IF HasNext(hn.idx, Len(questions))
       THEN /\ Render(quizState, questions, currentQuestionIndex + 1, userAnswers, FALSE,
                      QuestionDuration, location, Null)
            /\ UNCHANGED <<storeVars, quizResult>>
       ELSE /\ PostResult(SubmitQuizBody(questions, hn.answers, hn.time))
            /\ quizResult' = Some(SavedResult(results', resultIdCounter))
            /\ Render(quizState, questions, currentQuestionIndex, userAnswers, FALSE,
                      timeRemaining, "/leaderboard", Null)
            /\ UNCHANGED <<quizSettings, quizAnswers, quizAnswerIdCounter, now>>

\* The answer's response arrives: the mutation's onSuccess invalidates the
\* answers query, and handleNextQuestion goes on after its await: nextQuestion of
\* the render the handler was created in (its currentQuestionIndex is hn.idx),
\* then setSelectedAnswer(null).
AfterSubmitAnswer ==
    /\ UNCHANGED http
    /\ Acting
    /\ hn.pc = "awaiting"
    /\ hn' = IdleHn
    /\ answersFetch' = Some(GetQuizAnswersForUser(SessionUser))
    /\ IF HasNext(hn.idx, Len(questions))
       THEN /\ Render(quizState, questions, currentQuestionIndex + 1, userAnswers, FALSE,
                      QuestionDuration, location, Null)
            /\ UNCHANGED <<storeVars, quizResult>>
       ELSE /\ PostResult(SubmitQuizBody(questions, hn.answers, hn.time))
            /\ quizResult' = Some(SavedResult(results', resultIdCounter))
            /\ Render(quizState, questions, currentQuestionIndex, userAnswers, FALSE,
                      timeRemaining, "/leaderboard", Null)
            /\ UNCHANGED <<quizSettings, quizAnswers, quizAnswerIdCounter, now>>

\* A test that never finds the time run out.
TimeUpNever(prev) ==
    prev < 0

\* The interval callback's test `prev <= 1`.
TimeUp(prev) ==
    prev <= 1

\* A countdown that stands still.
CountDownStuck(prev) ==
    prev

\* `return prev - 1`, for prev > 1. The firings between two moments at which
\* something else can happen change nothing but the countdown and are taken in
\* one step, down to the next such moment.
CountDown(prev) ==
    IF prev - 1 > ActWindow /\ prev - 1 <= QuestionDuration - ActWindow
    THEN ActWindow
    ELSE prev - 1

\* One firing of the interval callback. Its closure is the one of the render the
\* timer effect last ran in: that render's currentQuestionIndex (the current one,
\* a dependency), userAnswers and timeRemaining (timer.answers, timer.time).
TimerTick ==
    /\ UNCHANGED http
    /\ timer.on
    /\ IF TimeUp(timeRemaining)
       THEN LET hasQuestion == currentQuestionIndex < Len(questions)
                currentQuestion == questions[currentQuestionIndex + 1]
                answer == OrNull(timer.answers[currentQuestion.id])
                ua == IF hasQuestion
                      THEN [timer.answers EXCEPT ![currentQuestion.id] = answer]
                      ELSE userAnswers
            IN  /\ IF hasQuestion
                   THEN /\ PostAnswer(SubmitAnswerBody(currentQuestion.id, answer))
                        /\ answersFetch' = Some(SelectSeq(quizAnswers',
                                                  LAMBDA a : a.userId = SessionUser))
                   ELSE UNCHANGED <<quizAnswers, quizAnswerIdCounter, answersFetch>>
                /\ IF HasNext(currentQuestionIndex, Len(questions))
                   THEN /\ Render(quizState, questions, currentQuestionIndex + 1, ua,
                                  hasQuestion, QuestionDuration, location, selectedAnswer)
                        /\ UNCHANGED <<results, resultIdCounter, quizResult>>
                   ELSE /\ PostResult(SubmitQuizBody(questions, timer.answers, timer.time))
                        /\ quizResult' = Some(SavedResult(results', resultIdCounter))
                        /\ Render(quizState, questions, currentQuestionIndex, ua,
                                  hasQuestion, 0, "/leaderboard", selectedAnswer)
       ELSE /\ Render(quizState, questions, currentQuestionIndex, userAnswers, FALSE,
                      CountDown(timeRemaining), location, selectedAnswer)
            /\ UNCHANGED <<quizAnswers, quizAnswerIdCounter, results, resultIdCounter,
                           quizResult, answersFetch>>
    /\ UNCHANGED <<quizSettings, now, hn>>

\* The Leaderboard page's Back button, for a student.
HandleBack ==
    /\ UNCHANGED http
    /\ Acting
    /\ location = "/leaderboard"
    /\ Render(quizState, questions, currentQuestionIndex, userAnswers, FALSE,
              timeRemaining, "/quiz", Null)
    /\ UNCHANGED <<storeVars, quizResult, hn, answersFetch>>

Next ==
    \/ StartQuiz
    \/ ResetQuiz
    \/ PollSettings
    \/ FetchQuestions
    \/ FetchAnswers
    \/ \E o \in Picks : SelectAnswer(o)
    \/ HandleNextQuestion
    \/ AfterSubmitAnswer
    \/ TimerTick
    \/ HandleBack

Spec == Init /\ [][Next]_vars

(* ------------------------------------- the store called directly (storage.ts) *)

\* A saveResult that also marks the quiz completed.
SaveResultCallCompletes(u, sc, rk) ==
    /\ UNCHANGED http
    /\ Len(results) < MaxStoreResults
    /\ results' = SaveResult(results, resultIdCounter,
                      [userId |-> u, score |-> sc, correctAnswers |-> sc,
                       incorrectAnswers |-> 0, skippedAnswers |-> NumQuestions - sc,
                       averageResponseTime |-> 0, completionTime |-> 0, rank |-> rk])
    /\ resultIdCounter' = resultIdCounter + 1
    /\ quizSettings' = [quizSettings EXCEPT !.state = "completed"]
    /\ UNCHANGED <<quizAnswers, quizAnswerIdCounter, now>>
    /\ UNCHANGED sessionVars

\* storage.saveResult(insertResult) with any user, score and supplied rank.
SaveResultCall(u, sc, rk) ==
    /\ UNCHANGED http
    /\ Len(results) < MaxStoreResults
    /\ results' = SaveResult(results, resultIdCounter,
                      [userId |-> u, score |-> sc, correctAnswers |-> sc,
                       incorrectAnswers |-> 0, skippedAnswers |-> NumQuestions - sc,
                       averageResponseTime |-> 0, completionTime |-> 0, rank |-> rk])
    /\ resultIdCounter' = resultIdCounter + 1
    /\ UNCHANGED <<quizSettings, quizAnswers, quizAnswerIdCounter, now>>
    /\ UNCHANGED sessionVars

\* storage.saveQuizAnswer(insertAnswer) with any user, question id and answer.
SaveQuizAnswerCall(u, q, a) ==
    /\ UNCHANGED http
    /\ Len(quizAnswers) < MaxStoreAnswers
    /\ quizAnswers' = SaveQuizAnswer(quizAnswers, quizAnswerIdCounter,
                          [userId |-> u, questionId |-> q, userAnswer |-> a,
                           responseTimeSeconds |-> 0])
    /\ quizAnswerIdCounter' = quizAnswerIdCounter + 1
    /\ UNCHANGED <<quizSettings, results, resultIdCounter, now>>
    /\ UNCHANGED sessionVars

\* storage.saveQuizAnswer(insertAnswer) with a body that carries a correctness
\* flag of the client's.
SaveQuizAnswerClaimed(u, q, a, claimed) ==
    /\ UNCHANGED http
    /\ Len(quizAnswers) < MaxStoreAnswers
    /\ quizAnswers' = SaveQuizAnswer(quizAnswers, quizAnswerIdCounter,
                          [userId |-> u, questionId |-> q, userAnswer |-> a,
                           responseTimeSeconds |-> 0, isCorrect |-> claimed])
    /\ quizAnswerIdCounter' = quizAnswerIdCounter + 1
    /\ UNCHANGED <<quizSettings, results, resultIdCounter, now>>
    /\ UNCHANGED sessionVars

\* A client sort that is not stable.
RECURSIVE SortedResultsUnstable(_)
SortedResultsUnstable(leaderboardData) ==
    IF leaderboardData = <<>> THEN <<>>
    ELSE InsertByScoreUnstable(
             SortedResultsUnstable(SubSeq(leaderboardData, 1, Len(leaderboardData) - 1)),
             leaderboardData[Len(leaderboardData)])

\* The Leaderboard page: [...leaderboardData].sort((a, b) => b.score - a.score),
\* the rows showing index + 1.
SortedResults(leaderboardData) ==
    SortByScoreDesc(leaderboardData)

NextResults ==
    \/ StartQuiz
    \/ ResetQuiz
    \/ \E u \in Users, sc \in 0..MaxScore, rk \in SuppliedRanks : SaveResultCall(u, sc, rk)

SpecResults == Init /\ [][NextResults]_vars

NextAnswers ==
    \/ StartQuiz
    \/ ResetQuiz
    \/ \E u \in Users, q \in 1..(NumQuestions + 1), a \in Picks \cup {"B", Null} :
          SaveQuizAnswerCall(u, q, a)
    \/ \E u \in Users, q \in 1..(NumQuestions + 1), a \in Picks \cup {"B", Null},
          claimed \in BOOLEAN :
          SaveQuizAnswerClaimed(u, q, a, claimed)

SpecAnswers == Init /\ [][NextAnswers]_vars

\* Answers and results saved directly, in any order with starts and resets.
NextStore ==
    \/ StartQuiz
    \/ ResetQuiz
    \/ \E u \in Users, sc \in 0..MaxScore :
          Len(results) + Len(quizAnswers) < MaxStored /\ SaveResultCall(u, sc, 0)
    \/ \E u \in Users, q \in QuestionIds, a \in Picks :
          Len(results) + Len(quizAnswers) < MaxStored /\ SaveQuizAnswerCall(u, q, a)

SpecStore == Init /\ [][NextStore]_vars

(* ------------------------------------------------ a session already running *)

\* The quiz was started (at clock reading 0), the session has seen it started,
\* is on the Quiz page and has loaded the questions and the (empty) answer list.
InitRun ==
    /\ http = NoRequest
    /\ quizSettings = [state |-> "started", startTime |-> Some(0), endTime |-> None,
                       lastReset |-> None, updatedAt |-> Some(0)]
    /\ quizAnswers = <<>>
    /\ results = <<>>
    /\ quizAnswerIdCounter = 1
    /\ resultIdCounter = 1
    /\ now = 0
    /\ quizState = "started"
    /\ questions = Questions
    /\ currentQuestionIndex = 0
    /\ userAnswers = NoAnswers
    /\ timeRemaining = QuestionDuration
    /\ quizResult = None
    /\ timer = [on |-> TRUE, answers |-> NoAnswers, time |-> QuestionDuration]
    /\ hn = IdleHn
    /\ selectedAnswer = Null
    /\ location = "/quiz"
    /\ answersFetch = None

\* The administrator starts the quiz again after a reset.
StartAgain ==
    /\ quizSettings.state = "waiting"
    /\ StartQuiz

\* The running session; the administrator resets the quiz and starts it again.
NextRestart ==
    \/ ResetQuiz
    \/ StartAgain
    \/ PollSettings
    \/ FetchAnswers
    \/ \E o \in Picks : SelectAnswer(o)
    \/ HandleNextQuestion
    \/ AfterSubmitAnswer
    \/ TimerTick

SpecRestart == InitRun /\ [][NextRestart]_vars

\* The running session when a POST of an answer may fail.
NextFail ==
    \/ FetchAnswers
    \/ \E o \in Picks : SelectAnswer(o)
    \/ HandleNextQuestion
    \/ AfterSubmitAnswer
    \/ HandleNextQuestionFailed
    \/ AfterSubmitAnswerFailed
    \/ TimerTick

SpecFail == InitRun /\ [][NextFail]_vars

\* The running session under a ticking clock. The student clicks Next only
\* while the posts still allowed leave one for each question not yet passed.
ClickNext ==
    /\ Len(quizAnswers) + 1 + (NumQuestions - currentQuestionIndex) <= MaxAnswers
    /\ HandleNextQuestion

NextTicking ==
    \/ PollSettings
    \/ FetchAnswers
    \/ ClickNext
    \/ AfterSubmitAnswer
    \/ TimerTick

\* setInterval fires again and again: the callback is never put off for ever.
SpecTicking == InitRun /\ [][NextTicking]_vars /\ WF_vars(TimerTick)

(* ------------------------------------------- submitQuiz on any answer map *)

\* A session in progress with any answer map and any rendered countdown.
InitScore ==
    /\ http = NoRequest
    /\ quizSettings = [state |-> "started", startTime |-> Some(1), endTime |-> None,
                       lastReset |-> None, updatedAt |-> Some(1)]
    /\ quizAnswers = <<>>
    /\ results = <<>>
    /\ quizAnswerIdCounter = 1
    /\ resultIdCounter = 1
    /\ now = 1
    /\ quizState = "started"
    /\ questions = Questions
    /\ currentQuestionIndex = NumQuestions - 1
    /\ userAnswers \in [QuestionIds -> Options \cup {Null, Undefined}]
    /\ timeRemaining \in {1, QuestionDuration}
    /\ quizResult = None
    /\ timer = [on |-> TRUE, answers |-> NoAnswers, time |-> QuestionDuration]
    /\ hn = IdleHn
    /\ selectedAnswer = Null
    /\ location = "/quiz"
    /\ answersFetch = None

\* submitQuiz() of the current render, called through the context.
SubmitQuiz ==
    /\ UNCHANGED http
    /\ quizResult = None
    /\ PostResult(SubmitQuizBody(questions, userAnswers, timeRemaining))
    /\ quizResult' = Some(SavedResult(results', resultIdCounter))
    /\ Render(quizState, questions, currentQuestionIndex, userAnswers, FALSE,
              timeRemaining, "/leaderboard", selectedAnswer)
    /\ UNCHANGED <<quizSettings, quizAnswers, quizAnswerIdCounter, now, hn, answersFetch>>

NextScore ==
    SubmitQuiz

SpecScore == InitScore /\ [][NextScore]_vars

(* ------------------------------------- the request handlers (server/routes.ts) *)

\* The two default accounts of the store's constructor (the students come
\* first here; the ids only tell the accounts apart).
AdminId == NumUsers + 1
SuperAdminId == NumUsers + 2

\* req.session.user: nobody (no session), a student, or a default account.
Nobody ==
    [id |-> 0, role |-> "none"]

Accounts ==
    {Nobody} \cup {[id |-> u, role |-> "student"] : u \in Users}
             \cup {[id |-> AdminId, role |-> "admin"],
                   [id |-> SuperAdminId, role |-> "superadmin"]}

\* requireAuth, requireAdmin, requireSuperAdmin: does the middleware call next()?
RequireAuth(acct) ==
    acct # Nobody

RequireAdmin(acct) ==
    ~(acct = Nobody \/ (acct.role # "admin" /\ acct.role # "superadmin"))

\* A gate that lets every administrator through.
RequireSuperAdminLax(acct) ==
    ~(acct = Nobody \/ (acct.role # "admin" /\ acct.role # "superadmin"))

RequireSuperAdmin(acct) ==
    ~(acct = Nobody \/ acct.role # "superadmin")

\* An ownership test that passes every body.
OwnBodyAlways(acct, userId) ==
    TRUE

\* `answerData.userId !== req.session.user.id` answers 403: the test passed.
OwnBody(acct, userId) ==
    userId = acct.id

\* A result list handed out as stored.
SanitizedResultsRaw(rs, acct) ==
    rs

\* GET /api/results: the whole list for an administrator; for anyone else the
\* userId of every Result of another user set to 0.
SanitizedResults(rs, acct) ==
    IF acct.role = "admin" \/ acct.role = "superadmin"
    THEN rs
    ELSE [i \in 1..Len(rs) |->
            IF rs[i].userId = acct.id THEN rs[i] ELSE [rs[i] EXCEPT !.userId = 0]]

\* The request handled and its response (the body is kept for a list only).
Handled(route, acct, userId, status, body) ==
    [route |-> route, user |-> acct.id, role |-> acct.role, userId |-> userId,
     status |-> status, body |-> body]

\* POST /api/quiz/start behind requireAdmin.
RouteStartQuiz(acct) ==
    /\ UNCHANGED sessionVars
    /\ IF RequireAdmin(acct)
       THEN /\ now < MaxNow
            /\ now' = now + 1
            /\ quizSettings' = StartQuizSettings(quizSettings, now + 1)
            /\ UNCHANGED <<quizAnswers, results, quizAnswerIdCounter, resultIdCounter>>
            /\ http' = Handled("POST /api/quiz/start", acct, 0, 200, <<>>)
       ELSE /\ UNCHANGED storeVars
            /\ http' = Handled("POST /api/quiz/start", acct, 0, 403, <<>>)

\* POST /api/quiz/reset behind requireSuperAdmin.
RouteResetQuiz(acct) ==
    /\ UNCHANGED sessionVars
    /\ IF RequireSuperAdmin(acct)
       THEN /\ now < MaxNow
            /\ now' = now + 1
            /\ quizSettings' = ResetQuizSettings(quizSettings, now + 1)
            /\ quizAnswers' = <<>>
            /\ results' = <<>>
            /\ quizAnswerIdCounter' = 1
            /\ resultIdCounter' = 1
            /\ http' = Handled("POST /api/quiz/reset", acct, 0, 200, <<>>)
       ELSE /\ UNCHANGED storeVars
            /\ http' = Handled("POST /api/quiz/reset", acct, 0, 403, <<>>)

\* POST /api/quiz/answers behind requireAuth, with a body that parses.
RoutePostAnswer(acct, body) ==
    /\ UNCHANGED sessionVars
    /\ IF ~RequireAuth(acct)
       THEN /\ UNCHANGED storeVars
            /\ http' = Handled("POST /api/quiz/answers", acct, body.userId, 401, <<>>)
       ELSE IF ~OwnBody(acct, body.userId)
       THEN /\ UNCHANGED storeVars
            /\ http' = Handled("POST /api/quiz/answers", acct, body.userId, 403, <<>>)
       ELSE /\ Len(quizAnswers) + Len(results) < MaxRouteRecords
            /\ PostAnswer(body)
            /\ UNCHANGED <<quizSettings, results, resultIdCounter, now>>
            /\ http' = Handled("POST /api/quiz/answers", acct, body.userId, 201, <<>>)

\* POST /api/results behind requireAuth, with a body that parses.
RoutePostResult(acct, body) ==
    /\ UNCHANGED sessionVars
    /\ IF ~RequireAuth(acct)
       THEN /\ UNCHANGED storeVars
            /\ http' = Handled("POST /api/results", acct, body.userId, 401, <<>>)
       ELSE IF ~OwnBody(acct, body.userId)
       THEN /\ UNCHANGED storeVars
            /\ http' = Handled("POST /api/results", acct, body.userId, 403, <<>>)
       ELSE /\ Len(quizAnswers) + Len(results) < MaxRouteRecords
            /\ PostResult(body)
            /\ UNCHANGED <<quizSettings, quizAnswers, quizAnswerIdCounter, now>>
            /\ http' = Handled("POST /api/results", acct, body.userId, 201, <<>>)

\* GET /api/results behind requireAuth.
RouteGetResults(acct) ==
    /\ UNCHANGED sessionVars
    /\ UNCHANGED storeVars
    /\ IF ~RequireAuth(acct)
       THEN http' = Handled("GET /api/results", acct, 0, 401, <<>>)
       ELSE http' = Handled("GET /api/results", acct, 0, 200,
                            SanitizedResults(ListResults, acct))

\* The bodies the requests carry: any account's id as userId.
AnswerBodies ==
    {[userId |-> u, questionId |-> q, userAnswer |-> a, responseTimeSeconds |-> 0] :
        u \in Users, q \in QuestionIds, a \in Picks}

ResultBodies ==
    {[userId |-> u, score |-> sc, correctAnswers |-> sc, incorrectAnswers |-> 0,
      skippedAnswers |-> NumQuestions - sc, averageResponseTime |-> 0,
      completionTime |-> 0, rank |-> 0] : u \in Users, sc \in 0..MaxScore}

NextRoutes ==
    \/ \E acct \in Accounts : RouteStartQuiz(acct)
    \/ \E acct \in Accounts : RouteResetQuiz(acct)
    \/ \E acct \in Accounts, body \in AnswerBodies : RoutePostAnswer(acct, body)
    \/ \E acct \in Accounts, body \in ResultBodies : RoutePostResult(acct, body)
    \/ \E acct \in Accounts : RouteGetResults(acct)

SpecRoutes == Init /\ [][NextRoutes]_vars

(* ------------------------------------------------------------- the claims *)

\* The stored Answer Records of user u for question q.
StoredAnswers(as, u, q) ==
    {i \in 1..Len(as) : as[i].userId = u /\ as[i].questionId = q}

\* The stored Results of user u.
StoredResults(rs, u) ==
    {i \in 1..Len(rs) : rs[i].userId = u}

\* C1: for every question, the session's answer is committed (stored) at most
\* once, and an explicit advance that was started on question i moves the index
\* only from i (so that the index passes question i once), whatever the
\* interleaving of the countdown reaching zero with handleNextQuestion.
C1_CommitAndAdvanceOnce ==
    [][/\ \A q \in QuestionIds :
            Cardinality(StoredAnswers(quizAnswers', SessionUser, q)) <= 1
       /\ (hn.pc = "awaiting" /\ hn'.pc = "idle"
              /\ currentQuestionIndex' # currentQuestionIndex)
            => currentQuestionIndex = hn.idx]_vars

\* C2: the session's Result is stored at most once in a run, whatever ticks or
\* advances follow the end of the question sequence.
C2_ResultSubmittedOnce ==
    Cardinality(StoredResults(results, SessionUser)) <= 1

\* C3: the stored Results hold at most one Result per userId.
C3_OneResultPerUser ==
    \A u \in Users : Cardinality(StoredResults(results, u)) <= 1

\* C4: the stored Answer Records hold at most one record per (userId, questionId).
C4_OneAnswerPerPair ==
    \A u \in Users, q \in 1..(NumQuestions + 1) :
        Cardinality(StoredAnswers(quizAnswers, u, q)) <= 1

\* C5: once the session has its Result, or the quiz has been reset and not
\* started again, no firing of the interval callback commits an answer or
\* submits a Result.
C5_TimerStopsAfterFinishOrReset ==
    [][(\/ quizResult # None
        \/ (quizSettings.state = "waiting" /\ quizSettings.lastReset # None))
          => ~(TimerTick /\ timeRemaining <= 1)]_vars

\* The classes of the questions under the session's answer map.
CorrectSet ==
    {q \in QuestionIds : userAnswers[q] = CorrectAnswerOf(q)}

SkippedSet ==
    {q \in QuestionIds : userAnswers[q] \in {Null, Undefined}}

IncorrectSet ==
    QuestionIds \ (CorrectSet \cup SkippedSet)

\* C6: the submitted Result counts as correct the questions whose recorded answer
\* is the correct one, as skipped those with no or a null answer, and as
\* incorrect all the others; each question is in exactly one class.
C6_Classification ==
    quizResult # None =>
        /\ quizResult[1].correctAnswers = Cardinality(CorrectSet)
        /\ quizResult[1].skippedAnswers = Cardinality(SkippedSet)
        /\ quizResult[1].incorrectAnswers = Cardinality(IncorrectSet)
        /\ quizResult[1].correctAnswers + quizResult[1].skippedAnswers
             + quizResult[1].incorrectAnswers = NumQuestions

\* A Result was submitted for a map with a null answer and an incorrect one.
C6_Witness ==
    /\ quizResult # None
    /\ \E q \in QuestionIds : userAnswers[q] = Null
    /\ IncorrectSet # {}
    /\ quizResult[1].incorrectAnswers = 1

\* C7: the submitted score is 2 x correct - incorrect, and 0 when every question
\* is skipped.
C7_ScoreFormula ==
    quizResult # None =>
        /\ quizResult[1].score = 2 * Cardinality(CorrectSet) - Cardinality(IncorrectSet)
        /\ (SkippedSet = QuestionIds => quizResult[1].score = 0)

\* A Result with a correct and an incorrect answer was submitted (score 1).
C7_Witness ==
    /\ quizResult # None
    /\ CorrectSet # {}
    /\ IncorrectSet # {}
    /\ quizResult[1].score = 1

\* The response times the session posted for the questions user u answered
\* (stored records with a non-null answer).
AnsweredTimes(u) ==
    SelectSeq(quizAnswers, LAMBDA a : a.userId = u /\ a.userAnswer # Null)

RECURSIVE SumTimes(_)
SumTimes(as) ==
    IF as = <<>> THEN 0 ELSE Head(as).responseTimeSeconds + SumTimes(Tail(as))

\* C8: the averageResponseTime of a stored Result is the rounded mean of the
\* response times of the questions its user answered, and 0 when none was.
C8_AverageIsMean ==
    \A i \in 1..Len(results) :
        LET times == AnsweredTimes(results[i].userId)
        IN  results[i].averageResponseTime =
              IF times = <<>> THEN 0 ELSE RoundDiv(SumTimes(times), Len(times))

\* C9: the ranks of the N stored Results are the integers 1..N, each used once,
\* and a higher score has a smaller rank.
C9_DenseRanks ==
    /\ {results[i].rank : i \in 1..Len(results)} = 1..Len(results)
    /\ \A i, j \in 1..Len(results) :
          /\ (i # j => results[i].rank # results[j].rank)
          /\ (results[i].score > results[j].score => results[i].rank < results[j].rank)

\* Three Results stored after a reset, a later one with a higher score.
C9_Witness ==
    /\ Len(results) = MaxStoreResults
    /\ quizSettings.lastReset # None
    /\ \E i, j \in 1..Len(results) : i < j /\ results[i].score < results[j].score

\* C10: of two stored Results with equal scores the one created earlier (the
\* smaller id) has the smaller rank.
C10_TiesByCreation ==
    \A i, j \in 1..Len(results) :
        (results[i].id < results[j].id /\ results[i].score = results[j].score)
            => results[i].rank < results[j].rank

\* Two Results with equal scores, then a later one with a higher score.
C10_Witness ==
    /\ Len(results) >= 3
    /\ results[1].score = results[2].score
    /\ results[3].score > results[1].score
    /\ results[1].rank = 2 /\ results[2].rank = 3

\* C11: listResults returns the stored Results in the order of their ranks,
\* rank 1 first.
C11_ListedByRank ==
    \A i, j \in 1..Len(ListResults) :
        i < j => ListResults[i].rank < ListResults[j].rank

\* C12: resetQuiz can be called in every lifecycle state and with any stored
\* data, and leaves the state 'waiting' with a null start time, no Result
\* listed and no Answer Record for any user.
C12_ResetClears ==
    /\ [](now < MaxNow => ENABLED ResetQuiz)
    /\ [][ResetQuiz =>
            /\ quizSettings'.state = "waiting"
            /\ quizSettings'.startTime = None
            /\ ListResults' = <<>>
            /\ \A u \in Users : GetQuizAnswersForUser(u)' = <<>>]_vars

\* A reset was the second or a later administrator action, and the store is
\* empty and waiting after it.
C12_Witness ==
    /\ quizSettings.lastReset # None
    /\ quizSettings.lastReset[1] >= 2
    /\ quizSettings.updatedAt = quizSettings.lastReset
    /\ quizSettings.state = "waiting"
    /\ results = <<>> /\ quizAnswers = <<>>

\* C13: whenever the lifecycle state is 'started' the start time is not null.
C13_StartedHasStartTime ==
    quizSettings.state = "started" => quizSettings.startTime # None

\* The quiz was started again after a reset.
C13_Witness ==
    /\ quizSettings.state = "started"
    /\ quizSettings.lastReset # None
    /\ quizSettings.startTime # None
    /\ quizSettings.startTime[1] > quizSettings.lastReset[1]

\* C14: startQuiz on a started quiz succeeds, keeps the state 'started',
\* replaces only the start time and the update time, and leaves the stored
\* Answer Records and Results as they were.
C14_RestartOverwritesStartTime ==
    /\ [](quizSettings.state = "started" /\ now < MaxNow => ENABLED StartQuiz)
    /\ [][(StartQuiz /\ quizSettings.state = "started") =>
            /\ quizSettings'.state = "started"
            /\ quizSettings'.startTime = Some(now')
            /\ quizSettings'.updatedAt = Some(now')
            /\ quizSettings'.endTime = quizSettings.endTime
            /\ quizSettings'.lastReset = quizSettings.lastReset
            /\ quizAnswers' = quizAnswers
            /\ results' = results]_vars

\* The quiz was started and started again, with records stored.
C14_Witness ==
    /\ quizSettings.state = "started"
    /\ quizSettings.lastReset = None
    /\ quizSettings.startTime = Some(2)
    /\ results # <<>> /\ quizAnswers # <<>>

\* C15: with a non-empty question list the current question index is at least 0
\* and less than the number of questions.
C15_IndexInRange ==
    Len(questions) > 0 =>
        (0 <= currentQuestionIndex /\ currentQuestionIndex < Len(questions))

\* C16: within one run (no reset) no step of the session moves the current
\* question index back.
C16_IndexNeverDecreases ==
    [][(quizSettings.lastReset = None /\ quizSettings'.lastReset = None)
          => currentQuestionIndex' >= currentQuestionIndex]_vars

\* C17: the remaining countdown is always an integer from 0 to 60.
C17_CountdownInRange ==
    timeRemaining \in 0..60

\* The countdown ran out on the last question and stands at 0.
C17_Witness ==
    /\ timeRemaining = 0
    /\ quizResult # None
    /\ currentQuestionIndex = NumQuestions - 1

\* C18: an explicit advance made on a question that is not the last one adds
\* one to the index and sets the countdown to 60; one made on the last question
\* stores the session's Result and takes the session off the questions (to the
\* leaderboard).
C18_AdvanceStep ==
    [][(hn.pc = "awaiting" /\ hn'.pc = "idle") =>
          IF hn.idx < Len(questions) - 1
          THEN /\ currentQuestionIndex' = currentQuestionIndex + 1
               /\ timeRemaining' = 60
          ELSE /\ Len(results') = Len(results) + 1
               /\ results'[Len(results')].userId = SessionUser
               /\ quizResult' # None
               /\ location' = "/leaderboard"]_vars

\* The session finished by an explicit advance on the last question (a
\* countdown that ran out would stand at 0).
C18_Witness ==
    /\ quizResult # None
    /\ Len(results) = 1
    /\ timeRemaining > 0
    /\ currentQuestionIndex = NumQuestions - 1
    /\ hn.pc = "idle"
    /\ location = "/leaderboard"

\* C19: an advance (nextQuestion after the awaited submitAnswer) on a session
\* that already has its Result changes neither the index, the answers nor the
\* countdown, and stores no further Result.
C19_AdvanceAfterFinishIsNoOp ==
    [][(quizResult # None /\ quizSettings.lastReset = None
           /\ (HandleNextQuestion \/ AfterSubmitAnswer))
          => UNCHANGED <<currentQuestionIndex, userAnswers, timeRemaining, results>>]_vars

\* C20: when the countdown reaches zero on a question for which the session has
\* recorded an answer, the answer the timeout stores for that question is the
\* recorded one.
C20_TimeoutCommitsRecordedAnswer ==
    [][(/\ TimerTick
        /\ timeRemaining <= 1
        /\ currentQuestionIndex < Len(questions)
        /\ userAnswers[questions[currentQuestionIndex + 1].id] # Undefined)
          => quizAnswers'[Len(quizAnswers')].userAnswer =
                 userAnswers[questions[currentQuestionIndex + 1].id]]_vars

\* C21: when the countdown of a question that is not the last reaches zero and
\* the session holds no answer for it, a record with a null answer is stored
\* for that question, the answer map holds null for it (skipped at scoring),
\* the index grows by exactly one and the countdown is 60 again.
C21_TimeoutSkips ==
    [][(/\ TimerTick
        /\ timeRemaining <= 1
        /\ currentQuestionIndex < Len(questions) - 1
        /\ userAnswers[questions[currentQuestionIndex + 1].id] = Undefined)
          => /\ Len(quizAnswers') = Len(quizAnswers) + 1
             /\ quizAnswers'[Len(quizAnswers')].questionId =
                    questions[currentQuestionIndex + 1].id
             /\ quizAnswers'[Len(quizAnswers')].userAnswer = Null
             /\ userAnswers'[questions[currentQuestionIndex + 1].id] = Null
             /\ currentQuestionIndex' = currentQuestionIndex + 1
             /\ timeRemaining' = 60]_vars

\* C22: an answer is stored only while the quiz is started and only for a
\* question of the bank: while the lifecycle state is not 'started', or for an
\* unknown question id, no save adds an Answer Record.
C22_RecordOnlyWhileStarted ==
    [][Len(quizAnswers') > Len(quizAnswers) =>
          /\ quizSettings.state = "started"
          /\ quizAnswers'[Len(quizAnswers')].questionId \in QuestionIds]_vars

\* C24: whenever the lifecycle state is 'waiting' the Result collection is
\* empty (and so is the Answer Record collection, which fails sooner): no
\* Result of a session that started before a reset is stored after it.
C24_WaitingStoreEmpty ==
    quizSettings.state = "waiting" => results = <<>>

\* C25: when the session sees the quiz started again after a reset, it is at
\* question index 0 with an empty answer map and a full countdown.
C25_NewRunStartsFresh ==
    [][(/\ quizSettings.lastReset # None
        /\ quizState # "started"
        /\ quizState' = "started")
          => /\ currentQuestionIndex' = 0
             /\ userAnswers' = NoAnswers
             /\ timeRemaining' = 60]_vars

C26_NoTimerUnlessStarted ==
    [][(quizState # "started" \/ Len(questions) = 0)
          => (~TimerTick /\ timeRemaining' >= timeRemaining)]_vars

\* The session ran, then saw the quiz back in 'waiting': the interval is
\* cleared in the middle of a countdown.
C26_Witness ==
    /\ quizState = "waiting"
    /\ Len(questions) > 0
    /\ ~timer.on
    /\ timeRemaining = 1
    /\ location = "/waiting-room"

\* C27: with the interval firing, a session that sees the quiz started and has
\* questions gets its Result stored in the end, whether or not the student
\* acts; every firing brings the countdown down, and the firing at the end of a
\* countdown leaves the question.
C27_EventuallyFinishes ==
    /\ (quizState = "started" /\ Len(questions) > 0) ~> (quizResult # None)
    /\ [][TimerTick =>
              IF timeRemaining > 1 THEN timeRemaining' < timeRemaining
              ELSE \/ currentQuestionIndex' = currentQuestionIndex + 1
                   \/ quizResult' # None]_vars

\* The session finished by the countdowns alone: three null answers stored.
C27_Witness ==
    /\ quizResult # None
    /\ Len(quizAnswers) = NumQuestions
    /\ \A i \in 1..Len(quizAnswers) :
          quizAnswers[i].questionId = i /\ quizAnswers[i].userAnswer = Null
    /\ quizResult[1].skippedAnswers = NumQuestions
    /\ timeRemaining = 0

\* C28: a saved answer of one user leaves the answer list of every other user
\* as it was, and a saved Result changes no field but the rank of the Results
\* already stored.
C28_UsersIndependent ==
    [][/\ quizAnswerIdCounter' > quizAnswerIdCounter =>
            \A u \in Users :
                u # quizAnswers'[Len(quizAnswers')].userId
                    => GetQuizAnswersForUser(u)' = GetQuizAnswersForUser(u)
       /\ resultIdCounter' > resultIdCounter =>
            \A i \in 1..Len(results) :
                [results'[i] EXCEPT !.rank = 0] = [results[i] EXCEPT !.rank = 0]]_vars

\* Two users hold a record for the same question, and a later Result of one
\* user has moved the rank of the other user's Result.
C28_Witness ==
    /\ Len(quizAnswers) = 2
    /\ quizAnswers[1].userId # quizAnswers[2].userId
    /\ quizAnswers[1].questionId = quizAnswers[2].questionId
    /\ Len(results) = 2
    /\ results[1].userId # results[2].userId
    /\ results[1].rank = 2

\* C29: the lifecycle record changes only in a step of startQuiz or resetQuiz.
C29_LifecycleOnlyByAdmin ==
    [][quizSettings' # quizSettings => (StartQuiz \/ ResetQuiz)]_vars

\* The quiz was started once, and answers and a Result were saved since.
C29_Witness ==
    /\ quizSettings.state = "started"
    /\ quizSettings.startTime = Some(1)
    /\ quizSettings.updatedAt = Some(1)
    /\ now = 1
    /\ results # <<>>
    /\ quizAnswers # <<>>

\* C30: the Result a session submits is scored on the answers its answer map
\* holds at that moment, the last one recorded for each question.
C30_ScoreFromLastAnswers ==
    [][(quizResult = None /\ quizResult' # None) =>
          LET c == CountAnswers(questions', userAnswers', Len(questions'))
          IN  /\ quizResult'[1].correctAnswers = c.correctCount
              /\ quizResult'[1].score = FinalScore(c.correctCount, c.incorrectCount)]_vars

\* C31: a POST of an answer or of a Result whose userId is not the id of the
\* authenticated user is rejected, and the stored Answer Records, the Results
\* with their ranks and the lifecycle record are as before; every record a
\* request stores belongs to the requester.
C31_ForeignPostRejected ==
    [][/\ (/\ http'.route \in {"POST /api/quiz/answers", "POST /api/results"}
           /\ http'.userId # http'.user)
             => (http'.status \in {401, 403} /\ UNCHANGED storeVars)
       /\ (quizAnswerIdCounter' > quizAnswerIdCounter)
             => quizAnswers'[Len(quizAnswers')].userId = http'.user
       /\ (resultIdCounter' > resultIdCounter)
             => results'[Len(results')].userId = http'.user]_vars

\* A student's Result for another user was refused while the quiz is started
\* and an answer and a Result are stored.
C31_Witness ==
    /\ http.route = "POST /api/results"
    /\ http.status = 403
    /\ http.role = "student"
    /\ quizSettings.state = "started"
    /\ quizAnswers # <<>>
    /\ results # <<>>

\* C33: a start request changes the lifecycle only for an admin or a
\* superadmin, a reset request changes it and clears the answers and results
\* only for a superadmin; every other requester gets an error, the store stays
\* as it was, and no other request changes the lifecycle record.
C33_LifecycleRoleGated ==
    [][/\ (http'.route = "POST /api/quiz/start") =>
             IF http'.role \in {"admin", "superadmin"}
             THEN http'.status = 200 /\ quizSettings'.state = "started"
             ELSE http'.status = 403 /\ UNCHANGED storeVars
       /\ (http'.route = "POST /api/quiz/reset") =>
             IF http'.role = "superadmin"
             THEN /\ http'.status = 200
                  /\ quizSettings'.state = "waiting"
                  /\ quizAnswers' = <<>>
                  /\ results' = <<>>
             ELSE http'.status = 403 /\ UNCHANGED storeVars
       /\ (quizSettings' # quizSettings) =>
             http'.route \in {"POST /api/quiz/start", "POST /api/quiz/reset"}]_vars

\* An admin's reset was refused: the quiz is still started and the records
\* are still stored.
C33_Witness ==
    /\ http.route = "POST /api/quiz/reset"
    /\ http.role = "admin"
    /\ http.status = 403
    /\ quizSettings.state = "started"
    /\ Len(quizAnswers) + Len(results) = MaxRouteRecords

\* The stores that differ from rs only in the userIds of the Results that do
\* not belong to user u.
Relabelings(rs, u) ==
    {[i \in 1..Len(rs) |-> [rs[i] EXCEPT !.userId = f[i]]] :
        f \in {g \in [1..Len(rs) -> 1..SuperAdminId] :
                  \A i \in 1..Len(rs) : (g[i] = u) <=> (rs[i].userId = u)}}

\* C34: the list a student gets carries userId 0 on every Result that is not
\* the student's own, and is the list the student would get from any store
\* that differs only in the userIds of other users' Results.
C34_NoOtherUserIds ==
    [][(http'.route = "GET /api/results" /\ http'.role = "student") =>
          /\ Len(http'.body) = Len(results)
          /\ \A i \in 1..Len(results) :
                http'.body[i].userId =
                    IF results[i].userId = http'.user THEN http'.user ELSE 0
          /\ \A rs2 \in Relabelings(results, http'.user) :
                SanitizedResults(rs2, [id |-> http'.user, role |-> "student"])
                    = http'.body]_vars

\* A student got a list holding the student's own Result and another user's.
C34_Witness ==
    /\ http.route = "GET /api/results"
    /\ http.role = "student"
    /\ http.status = 200
    /\ Len(http.body) = 2
    /\ http.body[1].userId = 0
    /\ http.body[2].userId = http.user
    /\ results[1].userId # 0

\* C32: the correctness flag of every stored Answer Record is true exactly when
\* its question is in the bank and the question's correct answer is the stored
\* answer; it is false for an unknown question and for a null answer, whatever
\* flag the body of the save carried.
C32_FlagDerivedByStore ==
    \A i \in 1..Len(quizAnswers) :
        /\ quizAnswers[i].isCorrect =
              (/\ quizAnswers[i].questionId \in QuestionIds
               /\ quizAnswers[i].userAnswer = CorrectAnswerOf(quizAnswers[i].questionId))
        /\ quizAnswers[i].questionId \notin QuestionIds => ~quizAnswers[i].isCorrect
        /\ quizAnswers[i].userAnswer = Null => ~quizAnswers[i].isCorrect

\* A correct answer, and an answer to a question that is not in the bank, are
\* stored.
C32_Witness ==
    /\ Len(quizAnswers) = 2
    /\ quizAnswers[1].isCorrect
    /\ quizAnswers[2].questionId = NumQuestions + 1
    /\ quizAnswers[2].userAnswer # Null
    /\ ~quizAnswers[2].isCorrect

\* C35: a timeout or an explicit advance that changes the question index adds
\* exactly one to it, and an explicit advance started on question i leaves the
\* index at most at i + 1, also when the countdown ran out while the save of
\* its answer was in flight.
C35_AdvanceByOne ==
    [][/\ (/\ (TimerTick \/ (hn.pc = "awaiting" /\ hn'.pc = "idle"))
           /\ currentQuestionIndex' # currentQuestionIndex)
             => currentQuestionIndex' = currentQuestionIndex + 1
       /\ (hn.pc = "awaiting" /\ hn'.pc = "idle")
             => currentQuestionIndex' <= hn.idx + 1]_vars

\* The positions (from 0) of the questions with no record in the answer list.
Unanswered(data) ==
    {i \in 0..(Len(questions) - 1) :
        \A k \in 1..Len(data) : data[k].questionId # questions[i + 1].id}

\* C36: when the session takes in a reloaded answer list that leaves a question
\* without a record, the index it goes on at is the position of the first
\* such question.
C36_ResumeAtFirstUnanswered ==
    [][(answersFetch # None /\ answersFetch' = None /\ Unanswered(answersFetch[1]) # {})
          => /\ currentQuestionIndex' \in Unanswered(answersFetch[1])
             /\ \A i \in Unanswered(answersFetch[1]) : currentQuestionIndex' <= i]_vars

\* C37: the lifecycle state, and the state the session sees, is 'waiting' or
\* 'started' in every reachable state, never 'completed'; the session comes to
\* the leaderboard only in a step that stores its Result.
C37_NeverCompleted ==
    /\ [](quizSettings.state \in {"waiting", "started"})
    /\ [](quizState \in {"waiting", "started"})
    /\ [][(location # "/leaderboard" /\ location' = "/leaderboard")
            => (quizResult' # None /\ resultIdCounter' > resultIdCounter)]_vars

\* The quiz was started twice, and the session has finished and is on the
\* leaderboard while the lifecycle state is still 'started'.
C37_Witness ==
    /\ quizSettings.state = "started"
    /\ quizSettings.startTime = Some(MaxNow)
    /\ quizSettings.lastReset = None
    /\ quizState = "started"
    /\ location = "/leaderboard"
    /\ quizResult # None

\* C38: in every Result submitQuiz submits over N questions the numbers of
\* correct, incorrect and skipped answers are not negative and add up to N, and
\* the score is at least -N and at most 2N.
C38_CountsAndScoreRange ==
    \A i \in 1..Len(results) :
        LET r == results[i]
            N == Len(questions)
        IN  /\ r.correctAnswers >= 0
            /\ r.incorrectAnswers >= 0
            /\ r.skippedAnswers >= 0
            /\ r.correctAnswers + r.incorrectAnswers + r.skippedAnswers = N
            /\ -N <= r.score
            /\ r.score <= 2 * N

\* A Result with every answer incorrect was submitted: the lowest score.
C38_Witness ==
    /\ Len(results) = 1
    /\ quizResult # None
    /\ results[1].incorrectAnswers = NumQuestions
    /\ results[1].score = -NumQuestions
    /\ \A q \in QuestionIds : userAnswers[q] \in Options

\* C39: in the list listResults returns, sorted by the Leaderboard page by
\* score descending, every Result stands at the position (from 1) that is its
\* stored rank.
C39_ClientOrderIsRank ==
    LET sortedResults == SortedResults(ListResults)
    IN  /\ Len(sortedResults) = Len(results)
        /\ \A index \in 1..Len(sortedResults) : sortedResults[index].rank = index

\* Three Results, the first with the lowest score and the other two tied: the
\* list is not in the order of the ranks.
C39_Witness ==
    /\ Len(results) = 3
    /\ results[1].score < results[2].score
    /\ results[2].score = results[3].score
    /\ results[1].rank = 3
    /\ results[2].rank = 1
    /\ results[3].rank = 2

====
